---- MODULE Spec2Model ----
(***************************************************************************)
(* Model of lib/fs/basicfs_windows.go: the Windows side of BasicFilesystem. *)
(*                                                                         *)
(* Paths are strings, modelled as sequences of one-character strings, so   *)
(* that the textual operations of the code (slicing, HasPrefix, Contains,  *)
(* TrimPrefix, filepath.Dir/Base/VolumeName) are computed as the code      *)
(* computes them.  The operating system is modelled by a directory tree    *)
(* (fs), an attribute mask of one file (fattr) and a short-name alias      *)
(* table (LongName) together with the depth down to which the resolved     *)
(* path exists (existDepth).  f.root is whatever directory the folder was  *)
(* configured with: on a drive or on a UNC share, spelled with long names  *)
(* or with an 8.3 alias.                                                   *)
(***************************************************************************)
EXTENDS Integers, Sequences, FiniteSets, TLC

VARIABLES
    \* ---- Robust Directory Creator ----
    fs,         \* the directory tree: node -> "dir" | "file", existing nodes only
    fs0,        \* the tree when the first call started
    fs1,        \* the tree when the second call of the sequential run started
    target,     \* proc -> the path handed to mkdirAll
    stack,      \* proc -> call stack of mkdirAll frames [path, pc, err]
    ret,        \* proc -> "running" | "nil" | the error returned
    calls,      \* number of mkdirAll calls started by the sequential caller
    made,       \* set of <<proc, node>>: successful os.Mkdir calls
    rechecks,   \* set of <<proc, path>>: failed Mkdir calls accepted by the Lstat
    \* ---- Attribute Manager ----
    fattr,      \* the attribute mask of the file, or NoFile
    fattr0,     \* the mask before the first operation
    prog,       \* proc -> sequence of operations still to run, head is current
    apc,        \* proc -> "call" | "write" | "done"
    aread,      \* proc -> the mask GetFileAttributes returned to the running op
    aret,       \* proc -> sequence of results of the finished operations
    hist,       \* sequence of masks, one per finished operation (sequential log)
    \* ---- Legacy Short-Name Resolver ----
    root,       \* f.root
    absPath0,   \* the argument of the first resolveWin83 call
    existDepth, \* how many leading elements of absPath0 exist on disk
    aliased,    \* TRUE when the short-form element names an existing alias
    rpc,        \* "start" | "query" | "walk" | "done"
    cur,        \* the local variable absPath
    result,     \* the value returned by the current call
    outcome,    \* which return statement produced result
    round,      \* 1: first application, 2: resolveWin83 applied to its result
    res1,       \* result of the first application
    walks       \* iterations of the upward loop taken by the current call

vars == <<fs, fs0, fs1, target, stack, ret, calls, made, rechecks,
          fattr, fattr0, prog, apc, aread, aret, hist,
          root, absPath0, existDepth, aliased, rpc, cur, result, outcome,
          round, res1, walks>>

mkVars == <<fs, fs0, fs1, target, stack, ret, calls, made, rechecks>>
atVars == <<fattr, fattr0, prog, apc, aread, aret, hist>>
rsVars == <<root, absPath0, existDepth, aliased, rpc, cur, result, outcome,
            round, res1, walks>>

-----------------------------------------------------------------------------
(* Bounds of the model. *)

MaxDepth == 3   \* elements below the volume in a mkdirAll target
MaxRel   == 3   \* elements below root in a resolveWin83 argument
MaxWalk  == 6   \* cap on the iterations of the upward loop that are explored

-----------------------------------------------------------------------------
(* The parts of the state a specification does not use stay as they are. *)

NoFile == -1

MkIdle ==
    /\ fs = <<>> /\ fs0 = <<>> /\ fs1 = <<>> /\ target = <<>> /\ stack = <<>>
    /\ ret = <<>> /\ calls = 0 /\ made = {} /\ rechecks = {}

AtIdle ==
    /\ fattr = NoFile /\ fattr0 = NoFile /\ prog = <<>> /\ apc = <<>>
    /\ aread = <<>> /\ aret = <<>> /\ hist = <<>>

RsIdle ==
    /\ root = <<>> /\ absPath0 = <<>> /\ existDepth = 0 /\ aliased = FALSE
    /\ rpc = "idle" /\ cur = <<>> /\ result = <<>> /\ outcome = ""
    /\ round = 0 /\ res1 = <<>> /\ walks = 0

-----------------------------------------------------------------------------
(* Strings and path/filepath.                                              *)

Sep == "\\"

Max(S) == CHOOSE x \in S : \A y \in S : y <= x
Min(S) == CHOOSE x \in S : \A y \in S : x <= y

\* Go slice s[a:b], 0-based, half open.
Slice(s, a, b) == SubSeq(s, a + 1, b)

IsPathSeparator(c) == c = "\\" \/ c = "/"

IsLetter(c) ==
    c \in {"C", "a", "b", "c", "f", "g", "h", "i", "n", "r", "s", "t", "x", "y"}

\* strings.Contains(s, "~")
ContainsTilde(s) == \E i \in 1..Len(s) : s[i] = "~"

HasPrefix(s, p) == Len(s) >= Len(p) /\ SubSeq(s, 1, Len(p)) = p

TrimPrefix(s, p) == IF HasPrefix(s, p) THEN SubSeq(s, Len(p) + 1, Len(s)) ELSE s

WindowsTempPrefix == <<"~", "s", "y", "n", "c", "t", "h", "i", "n", "g", "~">>

\* Index (0-based) of the first separator of s at or after n, or Len(s).
NextSep(s, n) ==
    Min({k \in n..(Len(s) - 1) : IsPathSeparator(s[k + 1])} \cup {Len(s)})

\* filepath.volumeNameLen (windows): a drive letter, or \\server\share.
volumeNameLen(path) ==
    LET l == Len(path) IN
    IF l < 2 THEN 0
    ELSE IF path[2] = ":" /\ IsLetter(path[1]) THEN 2
    ELSE IF l >= 5 /\ IsPathSeparator(path[1]) /\ IsPathSeparator(path[2])
               /\ ~IsPathSeparator(path[3]) /\ path[3] # "."
    THEN LET n == NextSep(path, 3) IN      \* end of the server name
         IF n >= l - 1 THEN 0
         ELSE IF IsPathSeparator(path[n + 2]) \/ path[n + 2] = "." THEN 0
         ELSE NextSep(path, n + 1)         \* end of the share name
    ELSE 0

VolumeName(path) == Slice(path, 0, volumeNameLen(path))

\* The elements of a path without volume: the non-empty runs between separators.
RECURSIVE Elements(_)
Elements(s) ==
    IF s = <<>> THEN <<>>
    ELSE LET k    == NextSep(s, 0)
             head == Slice(s, 0, k)
             rest == IF k >= Len(s) THEN <<>> ELSE Slice(s, k + 1, Len(s))
         IN (IF head = <<>> THEN <<>> ELSE <<head>>) \o Elements(rest)

RECURSIVE JoinElems(_)
JoinElems(es) ==
    IF es = <<>> THEN <<>>
    ELSE IF Len(es) = 1 THEN es[1]
    ELSE es[1] \o <<Sep>> \o JoinElems(Tail(es))

\* The element stack of filepath.Clean: "." is dropped, ".." removes the
\* element before it (at the root it is dropped, otherwise it is kept).
RECURSIVE CleanElems(_, _, _)
CleanElems(es, out, rooted) ==
    IF es = <<>> THEN out
    ELSE LET e == Head(es) IN
         IF e = <<".">> THEN CleanElems(Tail(es), out, rooted)
         ELSE IF e = <<".", ".">>
         THEN IF out # <<>> /\ out[Len(out)] # <<".", ".">>
              THEN CleanElems(Tail(es), SubSeq(out, 1, Len(out) - 1), rooted)
              ELSE IF rooted THEN CleanElems(Tail(es), out, rooted)
              ELSE CleanElems(Tail(es), Append(out, e), rooted)
         ELSE CleanElems(Tail(es), Append(out, e), rooted)

\* filepath.Clean of a path that carries no volume name.
Clean(path) ==
    LET rooted == path # <<>> /\ IsPathSeparator(path[1])
        joined == JoinElems(CleanElems(Elements(path), <<>>, rooted))
    IN IF rooted THEN <<Sep>> \o joined
       ELSE IF joined = <<>> THEN <<".">> ELSE joined

\* Index (0-based) of the last separator of path at or after lo, or lo - 1.
LastSep(path, lo) ==
    Max({k \in lo..(Len(path) - 1) : IsPathSeparator(path[k + 1])} \cup {lo - 1})

\* filepath.Dir (windows)
Dir(path) ==
    LET vol == VolumeName(path)
        i   == LastSep(path, Len(vol))
        dir == Clean(Slice(path, Len(vol), i + 1))
    IN IF dir = <<".">> /\ Len(vol) > 2 THEN vol ELSE vol \o dir

\* Length of path once its trailing separators are stripped.
TrimmedLen(path) ==
    Max({k \in 1..Len(path) : ~IsPathSeparator(path[k])} \cup {0})

\* filepath.Base (windows)
Base(path) ==
    IF path = <<>> THEN <<".">>
    ELSE LET p1 == Slice(path, 0, TrimmedLen(path))
             p2 == Slice(p1, volumeNameLen(p1), Len(p1))
             i  == LastSep(p2, 0)
             p3 == IF i >= 0 THEN Slice(p2, i + 1, Len(p2)) ELSE p2
         IN IF p3 = <<>> THEN <<Sep>> ELSE p3


-----------------------------------------------------------------------------
(* Legacy Short-Name Resolver: isMaybeWin83 and resolveWin83.              *)

isMaybeWin83(absPath) ==
    IF ~ContainsTilde(absPath) THEN FALSE
    ELSE IF ContainsTilde(Dir(absPath)) THEN TRUE
    ELSE ContainsTilde(TrimPrefix(Base(absPath), WindowsTempPrefix))

\* Element names used to build resolver arguments.
PlainName == <<"f">>
ShortName == <<"a", "~", "1">>              \* 8.3 alias of LongForm when aliased
LongForm  == <<"a", "b">>
TildeName == <<"x", "~", "y">>              \* a long name that contains the marker
TempName  == WindowsTempPrefix \o <<"f">>   \* a temporary file name

RelNames == {PlainName, ShortName, TildeName, TempName}

RECURSIVE SeqsUpTo(_, _)
SeqsUpTo(S, n) ==
    IF n = 0 THEN {<<>>}
    ELSE LET shorter == SeqsUpTo(S, n - 1)
         IN shorter \cup {Append(q, e) : q \in shorter, e \in S}

DriveRoot  == <<"C", ":", Sep>>                     \* C:\
PlainRoot  == <<"C", ":", Sep, "r">>                \* C:\r
ShortRoot  == <<"C", ":", Sep>> \o ShortName        \* C:\a~1
ShareRoot  == <<Sep, Sep, "s", Sep, "t">>           \* \\s\t
TildeShare == <<Sep, Sep, "s", Sep, "t", "~">>      \* \\s\t~

Roots == {DriveRoot, PlainRoot, ShortRoot, ShareRoot, TildeShare}

\* filepath.Join(root, rel) for a clean root and clean relative elements,
\* as the rooted collaborator hands paths to this file.
Rooted(r, rel) ==
    IF rel = <<>> THEN r
    ELSE IF IsPathSeparator(r[Len(r)]) THEN r \o JoinElems(rel)
    ELSE r \o <<Sep>> \o JoinElems(rel)

\* The elements of a path below its volume.
Below(path) == Elements(Slice(path, volumeNameLen(path), Len(path)))

\* The long name the directory entry called e goes by.
LongName(e) == IF aliased /\ e = ShortName THEN LongForm ELSE e

LongElems(es) == [i \in 1..Len(es) |-> LongName(es[i])]

\* The entry a path names exists: it is one of the first existDepth
\* ancestors-or-self of absPath0 (under either of its names).
PathExists(path) ==
    LET es  == Below(path)
        all == Below(absPath0)
    IN /\ VolumeName(path) = VolumeName(absPath0)
       /\ Len(es) <= existDepth
       /\ \A i \in 1..Len(es) : LongName(es[i]) = LongName(all[i])

\* syscall.GetLongPathName: fails for a path that does not exist, otherwise
\* every element is replaced by its long name.
LongPathOf(path) ==
    IF Below(path) = <<>> THEN path
    ELSE VolumeName(path) \o <<Sep>> \o JoinElems(LongElems(Below(path)))

\* Lines 210-221: the query with the 4*len buffer and one retry with the
\* size the first call asked for.  ok is FALSE when the code falls through
\* to the upward walk.  The OS does not change between the two calls, so
\* the retry decodes the same string the first call measured.
QueryLongPath(absPath) ==
    IF ~PathExists(absPath) THEN [ok |-> FALSE, path |-> <<>>]
    ELSE LET n == Len(LongPathOf(absPath)) IN
         IF n <= 4 * Len(absPath)
         THEN [ok |-> TRUE, path |-> SubSeq(LongPathOf(absPath), 1, n)]   \* line 214
         ELSE [ok |-> TRUE, path |-> LongPathOf(absPath)]                 \* line 218

\* One evaluation of the loop at lines 224-228 with absPath = c:
\* the loop condition, the candidate test, and the post statement.
WalkStepDropsRootBound(c) ==
    IF ~isMaybeWin83(c) THEN [ret |-> TRUE, val |-> c, how |-> "ancestor"]
    ELSE [ret |-> FALSE, val |-> Dir(c), how |-> ""]

WalkStep(c) ==
    IF ~HasPrefix(c, root) THEN [ret |-> TRUE, val |-> root, how |-> "root"]
    ELSE IF ~isMaybeWin83(c) THEN [ret |-> TRUE, val |-> c, how |-> "ancestor"]
    ELSE [ret |-> FALSE, val |-> Dir(c), how |-> ""]

\* Line 207-209: the fast path.
resolveWin83_FastPath ==
    /\ rpc = "start"
    /\ IF ~isMaybeWin83(cur)
       THEN /\ rpc' = "done"
            /\ result' = cur
            /\ outcome' = "unchanged"
       ELSE /\ rpc' = "query"
            /\ UNCHANGED <<result, outcome>>
    /\ UNCHANGED <<root, absPath0, existDepth, aliased, cur, round, res1, walks>>
    /\ UNCHANGED <<mkVars, atVars>>

\* Lines 210-224: the OS query; on failure the loop's init statement.
resolveWin83_Query ==
    /\ rpc = "query"
    /\ LET q == QueryLongPath(cur) IN
       IF q.ok
       THEN /\ rpc' = "done"
            /\ result' = q.path
            /\ outcome' = "long"
            /\ cur' = cur
       ELSE /\ rpc' = "walk"
            /\ cur' = Dir(cur)
            /\ UNCHANGED <<result, outcome>>
    /\ UNCHANGED <<root, absPath0, existDepth, aliased, round, res1, walks>>
    /\ UNCHANGED <<mkVars, atVars>>

\* Lines 224-229: one iteration of the upward walk.
resolveWin83_Walk ==
    /\ rpc = "walk"
    /\ walks < MaxWalk
    /\ LET w == WalkStep(cur) IN
       IF w.ret
       THEN /\ rpc' = "done"
            /\ result' = w.val
            /\ outcome' = w.how
            /\ UNCHANGED <<cur, walks>>
       ELSE /\ cur' = w.val
            /\ walks' = walks + 1
            /\ UNCHANGED <<rpc, result, outcome>>
    /\ UNCHANGED <<root, absPath0, existDepth, aliased, round, res1>>
    /\ UNCHANGED <<mkVars, atVars>>

\* The caller applies resolveWin83 to the path it just returned.
resolveWin83_Again ==
    /\ rpc = "done"
    /\ round = 1
    /\ round' = 2
    /\ res1' = result
    /\ cur' = result
    /\ rpc' = "start"
    /\ walks' = 0
    /\ result' = <<>>
    /\ outcome' = ""
    /\ UNCHANGED <<root, absPath0, existDepth, aliased>>
    /\ UNCHANGED <<mkVars, atVars>>

-----------------------------------------------------------------------------
(* Robust Directory Creator: mkdirAll.                                     *)

Procs == {1, 2}

\* The node of the directory tree a path names: its volume followed by its
\* elements, with "." elements and trailing separators resolved away as the
\* OS resolves them.
Node(path) ==
    <<VolumeName(path)>> \o
        Elements(Clean(Slice(path, volumeNameLen(path), Len(path))))

ParentNode(n) == SubSeq(n, 1, Len(n) - 1)

\* os.Stat / os.Lstat (the tree holds no links): "dir", "file" or "none".
OSStat(tree, path) ==
    IF Node(path) \in DOMAIN tree THEN tree[Node(path)] ELSE "none"

\* os.Mkdir: "nil", or the error of a mkdir that created nothing.
OSMkdirErr(tree, path) ==
    LET n == Node(path) IN
    IF n \in DOMAIN tree THEN "ERROR_ALREADY_EXISTS"
    ELSE IF ParentNode(n) \notin DOMAIN tree \/ tree[ParentNode(n)] # "dir"
    THEN "ERROR_PATH_NOT_FOUND"
    ELSE "nil"

WithDir(tree, n) ==
    [m \in DOMAIN tree \cup {n} |-> IF m = n THEN "dir" ELSE tree[m]]

\* Lines 40-50: the fast path.  "slow" when stat failed.
FastPathTrustsAnyEntry(st) ==
    IF st # "none" THEN "nil" ELSE "slow"

FastPath(st) ==
    IF st = "dir" THEN "nil"
    ELSE IF st = "file" THEN "ENOTDIR"
    ELSE "slow"

\* Lines 53-61: i skips the trailing separators, j scans back over the element.
ElemEnd(path) == TrimmedLen(path)

ElemStart(path) ==
    Max({k \in 1..ElemEnd(path) : IsPathSeparator(path[k])} \cup {0})

\* Line 65
Parent(path) == Slice(path, 0, ElemStart(path) - 1)

\* Lines 63-66: the parent is created first unless it is a volume name.
NeverCreatesParent(path) == FALSE

NeedsParent(path) ==
    /\ ElemStart(path) > 1
    /\ Parent(path) # VolumeName(Parent(path))

\* Lines 76-84: after a failed Mkdir, the directory is looked at again.
NoRecheck(st, err) == err

Recheck(st, err) == IF st = "dir" THEN "nil" ELSE err

Top(p) == stack[p][Len(stack[p])]

Active(p) == stack[p] # <<>>

\* The frame on top of p's stack returns e: nil resumes the caller at its
\* Mkdir (line 75), an error is returned by every caller (lines 68-70).
Return(p, e) ==
    LET rest == SubSeq(stack[p], 1, Len(stack[p]) - 1) IN
    IF e = "nil" /\ rest # <<>>
    THEN /\ stack' = [stack EXCEPT ![p] = rest]
         /\ ret' = ret
    ELSE /\ stack' = [stack EXCEPT ![p] = <<>>]
         /\ ret' = [ret EXCEPT ![p] = e]

SetTop(p, f) == [stack EXCEPT ![p][Len(stack[p])] = f]

\* Lines 40-72: os.Stat, the fast path, and the recursive call for the parent.
mkdirAll_Stat(p) ==
    /\ Active(p)
    /\ Top(p).pc = "stat"
    /\ LET path == Top(p).path
           fast == FastPath(OSStat(fs, path))
       IN IF fast # "slow"
          THEN Return(p, fast)
          ELSE /\ ret' = ret
               /\ IF NeedsParent(path)
                  THEN stack' = [stack EXCEPT ![p] =
                           Append(SubSeq(stack[p], 1, Len(stack[p]) - 1),
                                  [path |-> path, pc |-> "mkdir", err |-> "nil"])
                           \o <<[path |-> Parent(path), pc |-> "stat", err |-> "nil"]>>]
                  ELSE stack' = SetTop(p, [path |-> path, pc |-> "mkdir", err |-> "nil"])
    /\ UNCHANGED <<fs, fs0, fs1, target, calls, made, rechecks>>
    /\ UNCHANGED <<atVars, rsVars>>

\* Lines 75-76, 85: os.Mkdir.
mkdirAll_Mkdir(p) ==
    /\ Active(p)
    /\ Top(p).pc = "mkdir"
    /\ LET path == Top(p).path
           err  == OSMkdirErr(fs, path)
       IN IF err = "nil"
          THEN /\ fs' = WithDir(fs, Node(path))
               /\ made' = made \cup {<<p, Node(path)>>}
               /\ Return(p, "nil")
          ELSE /\ stack' = SetTop(p, [path |-> path, pc |-> "lstat", err |-> err])
               /\ UNCHANGED <<fs, made, ret>>
    /\ UNCHANGED <<fs0, fs1, target, calls, rechecks>>
    /\ UNCHANGED <<atVars, rsVars>>

\* Lines 79-83: os.Lstat after the failed Mkdir.
mkdirAll_Lstat(p) ==
    /\ Active(p)
    /\ Top(p).pc = "lstat"
    /\ LET e == Recheck(OSStat(fs, Top(p).path), Top(p).err) IN
          /\ Return(p, e)
          /\ rechecks' = IF e = "nil" THEN rechecks \cup {<<p, Top(p).path>>}
                         ELSE rechecks
    /\ UNCHANGED <<fs, fs0, fs1, target, calls, made>>
    /\ UNCHANGED <<atVars, rsVars>>

\* The sequential caller calls mkdirAll on the same path once more.
mkdirAll_Again ==
    /\ calls = 1
    /\ ret[1] # "running"
    /\ calls' = 2
    /\ fs1' = fs
    /\ stack' = [stack EXCEPT ![2] = <<[path |-> target[2], pc |-> "stat", err |-> "nil"]>>]
    /\ ret' = [ret EXCEPT ![2] = "running"]
    /\ UNCHANGED <<fs, fs0, target, made, rechecks>>
    /\ UNCHANGED <<atVars, rsVars>>

\* Inputs: clean paths down a chain of directories, and their "."-suffixed form.
Letters3 == <<"a", "b", "c">>

LevelName(k) == <<Letters3[((k - 1) % 3) + 1]>>

DriveVol == <<"C", ":">>

Volumes == {DriveVol, ShareRoot}

Chain(vol, d) == vol \o <<Sep>> \o JoinElems([k \in 1..d |-> LevelName(k)])

ChainNode(vol, d) == <<vol>> \o [k \in 1..d |-> LevelName(k)]

Dotted(path) == path \o <<Sep, ".">>

IsDotted(path) == path[Len(path)] = "."

Targets(vol) ==
    {Chain(vol, d) : d \in 1..MaxDepth} \cup {Dotted(Chain(vol, d)) : d \in 1..MaxDepth}

\* The trees over the chain: depth dirs levels are directories, and the next
\* level is absent or a plain file.
ChainTree(vol, dirs, file) ==
    [n \in {ChainNode(vol, d) : d \in 0..dirs}
           \cup (IF file THEN {ChainNode(vol, dirs + 1)} ELSE {})
        |-> IF Len(n) - 1 <= dirs THEN "dir" ELSE "file"]

Frame0(path) == <<[path |-> path, pc |-> "stat", err |-> "nil"]>>

InitMkdirSeq ==
    /\ AtIdle /\ RsIdle
    /\ \E vol \in Volumes, dirs \in 0..MaxDepth, file \in BOOLEAN :
          /\ (file => dirs < MaxDepth)
          /\ fs = ChainTree(vol, dirs, file)
          /\ \E t \in Targets(vol) : target = [p \in Procs |-> t]
    /\ fs0 = fs
    /\ fs1 = fs
    /\ stack = [p \in Procs |-> IF p = 1 THEN Frame0(target[p]) ELSE <<>>]
    /\ ret = [p \in Procs |-> IF p = 1 THEN "running" ELSE "idle"]
    /\ calls = 1
    /\ made = {}
    /\ rechecks = {}

NextMkdirSeq ==
    \/ \E p \in Procs : mkdirAll_Stat(p)
    \/ \E p \in Procs : mkdirAll_Mkdir(p)
    \/ \E p \in Procs : mkdirAll_Lstat(p)
    \/ mkdirAll_Again

SpecMkdirSeq == InitMkdirSeq /\ [][NextMkdirSeq]_vars

InitMkdirRace ==
    /\ AtIdle /\ RsIdle
    /\ \E vol \in Volumes :
          /\ fs = ChainTree(vol, 0, FALSE)
          /\ \E t \in Targets(vol) : target = [p \in Procs |-> t]
    /\ fs0 = fs
    /\ fs1 = fs
    /\ stack = [p \in Procs |-> Frame0(target[p])]
    /\ ret = [p \in Procs |-> "running"]
    /\ calls = 2
    /\ made = {}
    /\ rechecks = {}

NextMkdirRace ==
    \/ \E p \in Procs : mkdirAll_Stat(p)
    \/ \E p \in Procs : mkdirAll_Mkdir(p)
    \/ \E p \in Procs : mkdirAll_Lstat(p)

SpecMkdirRace == InitMkdirRace /\ [][NextMkdirRace]_vars

InitResolve ==
    /\ MkIdle /\ AtIdle
    /\ root \in Roots
    /\ \E rel \in SeqsUpTo(RelNames, MaxRel) : absPath0 = Rooted(root, rel)
    /\ existDepth \in 0..Len(Below(absPath0))
    /\ aliased \in BOOLEAN
    /\ rpc = "start"
    /\ cur = absPath0
    /\ result = <<>>
    /\ outcome = ""
    /\ round = 1
    /\ res1 = <<>>
    /\ walks = 0

NextResolve == resolveWin83_FastPath \/ resolveWin83_Query \/ resolveWin83_Walk \/ resolveWin83_Again

SpecResolve == InitResolve /\ [][NextResolve]_vars

-----------------------------------------------------------------------------
(* Attribute Manager: Hide, Unhide, SetFileAttributes, AddFileAttributes.  *)

FILE_ATTRIBUTE_HIDDEN == 2
FILE_ATTRIBUTE_SYSTEM == 4
FILE_ATTRIBUTE_NOT_CONTENT_INDEXED == 8192

\* The three bits line 172 names.
NamedBits == {FILE_ATTRIBUTE_HIDDEN, FILE_ATTRIBUTE_SYSTEM,
              FILE_ATTRIBUTE_NOT_CONTENT_INDEXED}

\* Bits the file does not name that a mask can carry: read-only and archive.
OtherBits == {1, 32}

AttrBits == NamedBits \cup OtherBits

\* uint32 bit operations.
RECURSIVE BitAnd(_, _)
BitAnd(a, b) ==
    IF a = 0 \/ b = 0 THEN 0
    ELSE (a % 2) * (b % 2) + 2 * BitAnd(a \div 2, b \div 2)

RECURSIVE BitOr(_, _)
BitOr(a, b) ==
    IF a = 0 THEN b
    ELSE IF b = 0 THEN a
    ELSE (IF a % 2 = 1 \/ b % 2 = 1 THEN 1 ELSE 0) + 2 * BitOr(a \div 2, b \div 2)

\* a &^ b
RECURSIVE BitAndNot(_, _)
BitAndNot(a, b) ==
    IF a = 0 THEN 0
    ELSE (IF a % 2 = 1 /\ b % 2 = 0 THEN 1 ELSE 0) + 2 * BitAndNot(a \div 2, b \div 2)

RECURSIVE SumOf(_)
SumOf(S) == IF S = {} THEN 0 ELSE LET x == CHOOSE y \in S : TRUE IN x + SumOf(S \ {x})

\* The masks a file can have, and the masks callers pass.
Masks == {SumOf(B) : B \in SUBSET AttrBits}

ArgMasks == {SumOf(B) : B \in SUBSET (NamedBits \cup {1})}

\* Line 172: the bits AddFileAttributes lets through.
AddableBits ==
    BitOr(BitOr(FILE_ATTRIBUTE_HIDDEN, FILE_ATTRIBUTE_SYSTEM),
          FILE_ATTRIBUTE_NOT_CONTENT_INDEXED)

\* Line 103
UnhideMask(attrs) == BitAndNot(attrs, FILE_ATTRIBUTE_HIDDEN)

\* Line 122
HideMaskAssigns(attrs) == FILE_ATTRIBUTE_HIDDEN

HideMask(attrs) == BitOr(attrs, FILE_ATTRIBUTE_HIDDEN)

\* Lines 172-173
AddMaskUnrestricted(attrs, newAttrs) == BitOr(attrs, newAttrs)

AddMask(attrs, newAttrs) == BitOr(attrs, BitAnd(newAttrs, AddableBits))

\* The mask an operation writes, given the mask it read.
Written(op, attrs) ==
    IF op.kind = "Hide" THEN HideMask(attrs)
    ELSE IF op.kind = "Unhide" THEN UnhideMask(attrs)
    ELSE IF op.kind = "Add" THEN AddMask(attrs, op.arg)
    ELSE op.arg

\* valid is FALSE when rooted or UTF16PtrFromString rejects the name.
Ops ==
    {[kind |-> k, arg |-> 0, valid |-> TRUE] : k \in {"Hide", "Unhide"}}
    \cup {[kind |-> k, arg |-> m, valid |-> TRUE] : k \in {"Set", "Add"}, m \in ArgMasks}
    \cup {[kind |-> k, arg |-> 0, valid |-> FALSE] : k \in {"Hide", "Unhide", "Set", "Add"}}

\* The running operation of p returns: its record is logged and the next
\* operation of p's program, if any, is called.
Finish(p, before, err) ==
    /\ hist' = Append(hist, [proc |-> p, op |-> Head(prog[p]), before |-> before,
                             after |-> fattr', err |-> err])
    /\ aret' = [aret EXCEPT ![p] = Append(@, err)]
    /\ prog' = [prog EXCEPT ![p] = Tail(@)]
    /\ apc' = [apc EXCEPT ![p] = IF Tail(prog[p]) = <<>> THEN "done" ELSE "call"]

\* The operation up to and including its first OS call: the whole of
\* SetFileAttributes, or rooted .. syscall.GetFileAttributes of the others.
AttrCall(p) ==
    /\ apc[p] = "call"
    /\ LET op == Head(prog[p]) IN
       IF ~op.valid
       THEN /\ fattr' = fattr
            /\ aread' = aread
            /\ Finish(p, fattr, "EINVAL")
       ELSE IF fattr = NoFile
       THEN /\ fattr' = fattr
            /\ aread' = aread
            /\ Finish(p, fattr, "ERROR_FILE_NOT_FOUND")
       ELSE IF op.kind = "Set"
       THEN /\ fattr' = Written(op, fattr)
            /\ aread' = aread
            /\ Finish(p, fattr, "nil")
       ELSE /\ aread' = [aread EXCEPT ![p] = fattr]
            /\ apc' = [apc EXCEPT ![p] = "write"]
            /\ UNCHANGED <<fattr, prog, aret, hist>>
    /\ UNCHANGED fattr0
    /\ UNCHANGED <<mkVars, rsVars>>

\* The closing syscall.SetFileAttributes of Hide, Unhide and AddFileAttributes.
AttrWrite(p) ==
    /\ apc[p] = "write"
    /\ fattr' = Written(Head(prog[p]), aread[p])
    /\ aread' = aread
    /\ Finish(p, aread[p], "nil")
    /\ UNCHANGED fattr0
    /\ UNCHANGED <<mkVars, rsVars>>

FileStates == Masks \cup {NoFile}

\* One caller runs two operations one after the other.
InitAttrSeq ==
    /\ MkIdle /\ RsIdle
    /\ fattr \in FileStates
    /\ fattr0 = fattr
    /\ \E o1 \in Ops, o2 \in Ops : prog = [p \in Procs |-> IF p = 1 THEN <<o1, o2>> ELSE <<>>]
    /\ apc = [p \in Procs |-> IF p = 1 THEN "call" ELSE "done"]
    /\ aread = [p \in Procs |-> 0]
    /\ aret = [p \in Procs |-> <<>>]
    /\ hist = <<>>

\* Two callers run one operation each on the same file.
InitAttrRace ==
    /\ MkIdle /\ RsIdle
    /\ fattr \in FileStates
    /\ fattr0 = fattr
    /\ \E o1 \in Ops, o2 \in Ops : prog = [p \in Procs |-> IF p = 1 THEN <<o1>> ELSE <<o2>>]
    /\ apc = [p \in Procs |-> "call"]
    /\ aread = [p \in Procs |-> 0]
    /\ aret = [p \in Procs |-> <<>>]
    /\ hist = <<>>

NextAttr ==
    \/ \E p \in Procs : AttrCall(p)
    \/ \E p \in Procs : AttrWrite(p)

SpecAttrSeq == InitAttrSeq /\ [][NextAttr]_vars

SpecAttrRace == InitAttrRace /\ [][NextAttr]_vars

-----------------------------------------------------------------------------
(* Properties.                                                             *)

\* The nodes a path runs through: its volume root and every ancestor, and itself.
PathNodes(path) == {SubSeq(Node(path), 1, k) : k \in 1..Len(Node(path))}

FileOnPath(tree, path) ==
    \E n \in PathNodes(path) : n \in DOMAIN tree /\ tree[n] = "file"

Creators(n) == {p \in Procs : <<p, n>> \in made}

BothReturned == \A p \in Procs : ret[p] \notin {"idle", "running"}

(* C1: whatever the interleaving of the stat, mkdir and lstat calls of two
   concurrent mkdirAll calls on the same path, started where none of its
   directories exist, both calls return nil, the tree ends up holding exactly
   the directories of that path, each created by exactly one of the calls,
   and a call whose Mkdir failed accepted a directory the other call made. *)
C1_ConcurrentMkdirAllBothSucceed ==
    /\ \A e \in rechecks :
          \E q \in Procs : <<q, Node(e[2])>> \in made /\ (q = e[1] => IsDotted(e[2]))
    /\ \A n \in DOMAIN fs : Cardinality(Creators(n)) <= 1
    /\ BothReturned =>
          /\ \A p \in Procs : ret[p] = "nil"
          /\ DOMAIN fs = PathNodes(target[1])
          /\ \A n \in DOMAIN fs : fs[n] = "dir"
          /\ \A n \in DOMAIN fs : Len(n) > 1 => Cardinality(Creators(n)) = 1

C1_Witness ==
    /\ BothReturned
    /\ Len(Node(target[1])) = MaxDepth + 1
    /\ rechecks # {}
    /\ \A p \in Procs : \E n \in DOMAIN fs : <<p, n>> \in made

(* C2: when no entry on the path is a plain file, mkdirAll running alone
   returns nil and the path and all its ancestors are directories; the second
   call on the same path returns nil too and leaves the tree as it found it. *)
C2_MkdirAllCreatesChain ==
    (ret[1] # "running" /\ ~FileOnPath(fs0, target[1])) =>
        /\ ret[1] = "nil"
        /\ \A n \in PathNodes(target[1]) : n \in DOMAIN fs /\ fs[n] = "dir"
        /\ DOMAIN fs = DOMAIN fs0 \cup PathNodes(target[1])
        /\ (ret[2] \notin {"idle", "running"} => ret[2] = "nil" /\ fs = fs1)

C2_Witness ==
    /\ ret[2] = "nil"
    /\ target[1] = Chain(DriveVol, MaxDepth)
    /\ DOMAIN fs0 = {<<DriveVol>>}
    /\ Cardinality(made) = MaxDepth
    /\ fs = fs1

(* C3: when the target or one of its ancestors is a plain file, mkdirAll
   returns the ENOTDIR path error, not the error of an os.Mkdir call, and the
   tree is left as it was. *)
C3_FileOnPathIsNotADirectory ==
    (ret[1] # "running" /\ FileOnPath(fs0, target[1])) =>
        /\ ret[1] = "ENOTDIR"
        /\ fs = fs0
        /\ made = {}

C3_Witness ==
    /\ ret[1] = "ENOTDIR"
    /\ Node(target[1]) \notin DOMAIN fs0
    /\ FileOnPath(fs0, target[1])
    /\ Len(Node(target[1])) = MaxDepth + 1

HasBit(m, b) == (m \div b) % 2 = 1

(* C4: a successful AddFileAttributes(name, n) on a file with mask m leaves
   the mask m OR (n AND the three named bits): bit by bit, a bit is set
   afterwards exactly when it was set before or is one of the three named
   bits and was requested. *)
C4_AddFileAttributesUnion ==
    \A i \in 1..Len(hist) :
        (hist[i].op.kind = "Add" /\ hist[i].err = "nil") =>
            /\ hist[i].after \in Masks
            /\ \A b \in AttrBits :
                  HasBit(hist[i].after, b) <=>
                      \/ HasBit(hist[i].before, b)
                      \/ (b \in NamedBits /\ HasBit(hist[i].op.arg, b))

C4_Witness ==
    \E i \in 1..Len(hist) :
        /\ hist[i].op.kind = "Add" /\ hist[i].err = "nil"
        /\ HasBit(hist[i].op.arg, 1) /\ ~HasBit(hist[i].before, 1)
        /\ HasBit(hist[i].op.arg, FILE_ATTRIBUTE_SYSTEM)
        /\ ~HasBit(hist[i].before, FILE_ATTRIBUTE_SYSTEM)
        /\ HasBit(hist[i].before, 32)
        /\ hist[i].after = fattr

HideThenUnhide ==
    /\ Len(hist) = 2
    /\ hist[1].op.kind = "Hide" /\ hist[1].err = "nil"
    /\ hist[2].op.kind = "Unhide" /\ hist[2].err = "nil"

(* C5 as stated: Hide followed by Unhide leaves the mask exactly as it was
   before Hide, whatever that mask was. *)
C5_HideUnhideRestoresMask == HideThenUnhide => fattr = fattr0

(* C5 as amended: Hide followed by Unhide leaves the mask as it was before
   Hide except that the hidden bit is clear; the mask is restored exactly
   when the file was not hidden before Hide. *)
C5_HideUnhideClearsHidden ==
    HideThenUnhide =>
        /\ \A b \in AttrBits :
              HasBit(fattr, b) <=> (b # FILE_ATTRIBUTE_HIDDEN /\ HasBit(fattr0, b))
        /\ (~HasBit(fattr0, FILE_ATTRIBUTE_HIDDEN) => fattr = fattr0)

C5_Witness ==
    /\ HideThenUnhide
    /\ ~HasBit(fattr0, FILE_ATTRIBUTE_HIDDEN)
    /\ HasBit(fattr0, 1) /\ HasBit(fattr0, FILE_ATTRIBUTE_SYSTEM)
    /\ HasBit(hist[1].after, FILE_ATTRIBUTE_HIDDEN)
    /\ fattr = fattr0

\* The mask after an operation that runs alone on a file in state m.
Alone(m, op) == IF ~op.valid \/ m = NoFile THEN m ELSE Written(op, m)

(* C8: whatever the interleaving of two concurrent attribute operations on
   the same file, the final mask is the one some sequential order of the two
   operations gives. *)
C8_AttributeOpsSerializable ==
    (Len(hist) = 2 /\ \A p \in Procs : apc[p] = "done") =>
        \/ fattr = Alone(Alone(fattr0, hist[1].op), hist[2].op)
        \/ fattr = Alone(Alone(fattr0, hist[2].op), hist[1].op)

\* p lies under root element by element.
UnderRoot(p) ==
    /\ VolumeName(p) = VolumeName(root)
    /\ Len(Below(p)) >= Len(Below(root))
    /\ SubSeq(Below(p), 1, Len(Below(root))) = Below(root)

(* C6: resolveWin83 applied to the path resolveWin83 returned, with the OS
   unchanged, returns that path again. *)
C6_ResolveIdempotent == (round = 2 /\ rpc = "done") => result = res1

(* C7: the path resolveWin83 returns is root or lies under root element by
   element, whether the OS query succeeded or failed. *)
C7_ResolveStaysUnderRoot == (round = 1 /\ rpc = "done") => UnderRoot(result)

\* Dir(p), Dir(Dir(p)), ...: the first k ancestors of p, nearest first.
RECURSIVE Ancestors(_, _)
Ancestors(p, k) ==
    IF k = 0 THEN <<>>
    ELSE LET d == Dir(p) IN <<d>> \o Ancestors(d, k - 1)

AncestorsOfArg == Ancestors(absPath0, Len(Below(absPath0)) + 2)

\* The ancestors of absPath0 at which the upward walk ends.
WalkEnds ==
    {k \in 1..Len(AncestorsOfArg) :
        ~HasPrefix(AncestorsOfArg[k], root) \/ ~isMaybeWin83(AncestorsOfArg[k])}

(* C9: when absPath is a candidate and the OS query failed, resolveWin83
   returns the nearest proper ancestor that is within root and not a
   candidate, and root when the walk leaves root before it finds one. *)
C9_WalkReturnsNearestLongAncestor ==
    (round = 1 /\ rpc = "done" /\ outcome \in {"ancestor", "root"}) =>
        /\ isMaybeWin83(absPath0)
        /\ ~QueryLongPath(absPath0).ok
        /\ WalkEnds # {}
        /\ LET a == AncestorsOfArg[Min(WalkEnds)] IN
              result = IF HasPrefix(a, root) THEN a ELSE root

C9_Witness ==
    /\ round = 1 /\ rpc = "done" /\ outcome = "ancestor"
    /\ walks >= 1
    /\ result # root
    /\ result = AncestorsOfArg[walks + 1]

(* C10: the upward walk of resolveWin83 is never on a directory that is its
   own parent while that directory has root as a prefix and is a candidate,
   which is where the loop would run for ever. *)
C10_WalkNeverStuck ==
    ~(rpc = "walk" /\ HasPrefix(cur, root) /\ isMaybeWin83(cur) /\ Dir(cur) = cur)

=============================================================================
